---- MODULE Spec2Model ----
(***************************************************************************)
(* Model of gridmeter/_clustering/cluster.py: the candidate search for one *)
(* seed, the best-selection rule, the multi-seed driver with its score     *)
(* trace, the cluster post-processor and the construction of the final     *)
(* ClusterResult, its factory from settings and its treatment matching;    *)
(* and of _create_clusters_df of individual_meter_matching.                *)
(*                                                                         *)
(* The modules cluster.py imports (bisect_k_means, scoring, bounds,        *)
(* transform) are not part of the sources at hand.  Their results are      *)
(* inputs of the model: the bisection labels and the numeric scores are    *)
(* chosen nondeterministically per seed, the cluster bounds and the        *)
(* transform's error flag per run.                                         *)
(***************************************************************************)
EXTENDS Integers, Sequences, FiniteSets, TLC

\* ---------------------------------------------------------------- bounds
MaxN == 3                \* pool meters (rows of the feature matrix)
MaxIter == 2             \* n_iter_cluster
MaxScore == 2            \* scores of the candidates given to best-selection alone
MaxLen == 4              \* label vectors given to the post-processor alone
MaxCands == 3            \* candidates given to best-selection alone
MaxShape == 2            \* values of a normalized load shape
MaxTreatment == 3        \* treatment meters of individual-meter matching
MaxPool == 3             \* comparison-pool meters of individual-meter matching
MaxRows == 6             \* samples given to the label generator alone
MaxCalls == 2            \* set_data calls on one Data object

\* numeric scores a scorer computes in the search (lower is better)
Scores == {0, 1}
\* _scoring.get_max_score_from_system_size(): the score of a result whose
\* score could not be calculated
MaxScoreFromSystemSize == 9

SampleCounts == 0..MaxN
UpperBounds == {-1, 1} \cup (2..(MaxN + 1))
LowerBounds == {2, 3}
MaxNonOutlierCounts == {2, 3}
IterCounts == 0..MaxIter
StartSeeds == {0, 4}
MinClusterSizes == {1, 2}

VARIABLES
    transform,            \* pool_loadshape_transform_result: [err_msg, n]
    cfg,                  \* the arguments of get_best_scored_cluster_result
    pc,                   \* position of the driver
    seed_inc,             \* loop variable of _get_all_cluster_result_generator
    best_scored_cluster,  \* <<>> is None, <<r>> is the result r
    score_elements,       \* list[ClusterScoreElement]
    all_cands,            \* every result the single-seed generators yielded
    hlg_calls,            \* calls of _get_bisecting_kmeans_cluster_label_dict
    score_calls,          \* calls of _scoring.score_clusters
    final,                \* <<>> or <<the ClusterResult>>
    arg,                  \* argument of a function applied on its own
    ret                   \* its result

vars == <<transform, cfg, pc, seed_inc, best_scored_cluster, score_elements,
          all_cands, hlg_calls, score_calls, final, arg, ret>>

\* ---------------------------------------------------------------- helpers
Range(s) == {s[i] : i \in 1..Len(s)}

Members(labels, c) == {i \in 1..Len(labels) : labels[i] = c}

ClusterSize(labels, c) == Cardinality(Members(labels, c))

\* ascending sequence of the elements of a finite set of integers
RECURSIVE SortedSeq(_)
SortedSeq(S) ==
    IF S = {} THEN <<>>
    ELSE LET m == CHOOSE x \in S : \A y \in S : x <= y
         IN <<m>> \o SortedSeq(S \ {m})

\* ------------------------------------------------- cluster post-processor
\* _scoring.merge_small_clusters: clusters with fewer than min_cluster_size
\* members become the outlier class -1; the surviving clusters are numbered
\* 0, 1, ... in the order of their ids.
SurvivingClusters(clusters, min_cluster_size) ==
    {c \in Range(clusters) : c >= 0 /\ ClusterSize(clusters, c) >= min_cluster_size}

MergeSmallClusters(clusters, min_cluster_size) ==
    LET keep == SurvivingClusters(clusters, min_cluster_size)
    IN [i \in 1..Len(clusters) |->
            IF clusters[i] \in keep
            THEN Cardinality({c \in keep : c < clusters[i]})
            ELSE -1]

\* a post-processor that forgets the shift by one
FinalClusterRenumberNoShift(clusters, min_cluster_size) ==
    MergeSmallClusters(clusters, min_cluster_size)

\* _final_cluster_renumber: merge, then clusters + 1
FinalClusterRenumber(clusters, min_cluster_size) ==
    LET merged == MergeSmallClusters(clusters, min_cluster_size)
    IN [i \in 1..Len(merged) |-> merged[i] + 1]

\* ------------------------------------------------------------------ scorer
\* _scoring.score_clusters: <<score, score_unable_to_be_calculated>>.  The
\* numeric value of a score that can be calculated is the input `value`.
ScoreClusters(labels, value, min_cluster_size, cluster_bound_lower, max_non_outlier_cluster_count) ==
    LET remaining ==
            Cardinality(SurvivingClusters(labels, min_cluster_size))
    IN IF \/ remaining < cluster_bound_lower
          \/ remaining > max_non_outlier_cluster_count
          \/ remaining < 2
       THEN <<MaxScoreFromSystemSize, TRUE>>
       ELSE <<value, FALSE>>

\* ------------------------------------------- hierarchical label generator
\* One bisection step at cluster count k (labels 0..k-1): a cluster of
\* maximal member count is split in two non-empty parts, one of which gets
\* the new label k.  The sizes of the parts are the k-means partition of the
\* data under the seed: any sizes are possible.  The pool meters are
\* interchangeable, so the part of size s that gets the new label is taken
\* to be the s members with the highest row numbers; every other split is
\* this one with the meters renamed.
LargestClusters(labels, k) ==
    {c \in 0..(k - 1) :
        \A d \in 0..(k - 1) : ClusterSize(labels, c) >= ClusterSize(labels, d)}

\* a strategy that may bisect any cluster of two members or more
BiggestInertia(labels, k) ==
    {c \in 0..(k - 1) : ClusterSize(labels, c) >= 2}

\* bisecting_strategy="largest_cluster": the clusters that may be bisected
BisectingStrategy(labels, k) == LargestClusters(labels, k)

Splits(labels, k) ==
    {[i \in 1..Len(labels) |->
        IF labels[i] = cs[1]
           /\ Cardinality({j \in Members(labels, cs[1]) : j > i}) < cs[2]
        THEN k ELSE labels[i]] :
        cs \in {x \in BisectingStrategy(labels, k) \X (1..Len(labels)) :
                    x[2] < ClusterSize(labels, x[1])}}

\* labels_full of BisectingKMeans(n_clusters).fit(data) on n samples, as the
\* sequence of the label vectors for 2, 3, ..., n_clusters clusters: every
\* value a run can return.
RECURSIVE LabelsFull(_, _)
LabelsFull(n, n_clusters) ==
    IF n_clusters = 2
    THEN {<<l>> : l \in Splits([i \in 1..n |-> 0], 1)}
    ELSE UNION {
            {Append(f, l) : l \in Splits(f[n_clusters - 2], n_clusters - 1)} :
                f \in LabelsFull(n, n_clusters - 1)}

\* ------------------------------------------------- one seed's candidates
\* _LabelResult
LabelResult(labels, score, unable, n_clusters) ==
    [labels |-> labels, score |-> score,
     score_unable_to_be_calculated |-> unable, n_clusters |-> n_clusters]

\* whether _get_all_label_results gets past its three early returns
Feasible(n, n_cluster_upper) ==
    ~(n_cluster_upper < 2) /\ ~(n_cluster_upper > n) /\ ~(n = 0)

\* a loop that also skips the entry for cluster_bound_lower clusters
RECURSIVE LabelResultsFromOffByOne(_, _, _, _, _, _, _)
LabelResultsFromOffByOne(k, n_cluster_upper, labels_full, values, cluster_bound_lower, min_cluster_size, max_non_outlier_cluster_count) ==
    IF k > n_cluster_upper THEN <<>>
    ELSE LET rest == LabelResultsFromOffByOne(k + 1, n_cluster_upper,
                         labels_full, values, cluster_bound_lower,
                         min_cluster_size, max_non_outlier_cluster_count)
             sc == ScoreClusters(labels_full[k - 1], values[k],
                       min_cluster_size, cluster_bound_lower,
                       max_non_outlier_cluster_count)
         IN IF k <= cluster_bound_lower THEN rest
            ELSE <<LabelResult(
                       FinalClusterRenumber(labels_full[k - 1], min_cluster_size),
                       sc[1], sc[2], k)>> \o rest

\* the loop of _get_all_label_results over labels_dict.items(), from the
\* entry for k clusters on; values[k] is the score calculated for k clusters
RECURSIVE LabelResultsFrom(_, _, _, _, _, _, _)
LabelResultsFrom(k, n_cluster_upper, labels_full, values, cluster_bound_lower, min_cluster_size, max_non_outlier_cluster_count) ==
    IF k > n_cluster_upper THEN <<>>
    ELSE LET rest == LabelResultsFrom(k + 1, n_cluster_upper, labels_full,
                         values, cluster_bound_lower, min_cluster_size,
                         max_non_outlier_cluster_count)
             sc == ScoreClusters(labels_full[k - 1], values[k],
                       min_cluster_size, cluster_bound_lower,
                       max_non_outlier_cluster_count)
         IN IF k < cluster_bound_lower THEN rest
            ELSE <<LabelResult(
                       FinalClusterRenumber(labels_full[k - 1], min_cluster_size),
                       sc[1], sc[2], k)>> \o rest

\* _get_all_label_results
GetAllLabelResults(n, n_cluster_upper, cluster_bound_lower, min_cluster_size, max_non_outlier_cluster_count, labels_full, values) ==
    IF n_cluster_upper < 2 THEN <<>>
    ELSE IF n_cluster_upper > n THEN <<>>
    ELSE IF n = 0 THEN <<>>
    ELSE LabelResultsFrom(2, n_cluster_upper, labels_full, values,
             cluster_bound_lower, min_cluster_size,
             max_non_outlier_cluster_count)

\* number of score_clusters calls of one _get_all_label_results call
ScoreCallsOf(n, n_cluster_upper, cluster_bound_lower) ==
    IF Feasible(n, n_cluster_upper)
    THEN Cardinality({k \in 2..n_cluster_upper : ~(k < cluster_bound_lower)})
    ELSE 0

\* a table that keeps the rows in the order of the pool meters
CreateClusterDataframeUnsorted(clusters) ==
    [i \in 1..Len(clusters) |-> <<i, clusters[i]>>]

\* _create_cluster_dataframe: rows <<id, cluster>> for the pool meters
\* 1..n, sorted by cluster (rows of one cluster in the order of their ids)
CreateClusterDataframe(clusters) ==
    LET ids == 1..Len(clusters)
        key(i) == clusters[i] * (Len(clusters) + 1) + i
        keys == SortedSeq({key(i) : i \in ids})
    IN [j \in 1..Len(keys) |->
            LET i == CHOOSE x \in ids : key(x) = keys[j]
            IN <<i, clusters[i]>>]

\* ClusterResultIntermediate
ClusterResultIntermediate(n_clusters, score, labels, cluster_df, unable, seed) ==
    [n_clusters |-> n_clusters, score |-> score, labels |-> labels,
     cluster_df |-> cluster_df, score_unable_to_be_calculated |-> unable,
     seed |-> seed]

\* a sentinel that does not set the flag
SentinelNotFlagged(upper_bound_n_cluster, seed) ==
    ClusterResultIntermediate(upper_bound_n_cluster, MaxScoreFromSystemSize,
        <<>>, <<>>, FALSE, seed)

\* the result yielded when there is nothing to cluster
Sentinel(upper_bound_n_cluster, seed) ==
    ClusterResultIntermediate(upper_bound_n_cluster, MaxScoreFromSystemSize,
        <<>>, <<>>, TRUE, seed)

\* a packaging that records the clusters left after the merge as n_clusters
FromLabelResultCountsSurvivors(label_result, seed) ==
    ClusterResultIntermediate(
        Cardinality({l \in Range(label_result.labels) : l >= 1}),
        label_result.score, label_result.labels,
        IF ~label_result.score_unable_to_be_calculated
        THEN CreateClusterDataframe(label_result.labels)
        ELSE <<>>,
        label_result.score_unable_to_be_calculated, seed)

\* a packaging that drops the scorer's flag
FromLabelResultFlagLost(label_result, seed) ==
    ClusterResultIntermediate(
        label_result.n_clusters, label_result.score, label_result.labels,
        CreateClusterDataframe(label_result.labels), FALSE, seed)

\* ClusterResultIntermediate.from_label_result_and_pool_loadshape_transform_result,
\* past its err_msg check
FromLabelResult(label_result, seed) ==
    ClusterResultIntermediate(
        label_result.n_clusters, label_result.score, label_result.labels,
        IF ~label_result.score_unable_to_be_calculated
        THEN CreateClusterDataframe(label_result.labels)
        ELSE <<>>,
        label_result.score_unable_to_be_calculated, seed)

\* the loop over label_results at the end of the generator
RECURSIVE FromLabelResults(_, _)
FromLabelResults(label_results, seed) ==
    IF label_results = <<>> THEN <<>>
    ELSE <<FromLabelResult(Head(label_results), seed)>>
            \o FromLabelResults(Tail(label_results), seed)

\* get_cluster_result_generator_from_upper_bound_n_cluster, run to its end:
\* the results it yields in order, and whether it then raises the ValueError
\* of from_label_result_and_pool_loadshape_transform_result.  The yield under
\* `err_msg is not None` is not followed by a return.
ClusterResultGenerator(err_msg, n, upper_bound_n_cluster, cluster_bound_lower, min_cluster_size, max_non_outlier_cluster_count, seed, labels_full, values) ==
    LET first == IF err_msg
                 THEN <<Sentinel(upper_bound_n_cluster, seed)>>
                 ELSE <<>>
        label_results ==
            GetAllLabelResults(n, upper_bound_n_cluster, cluster_bound_lower,
                min_cluster_size, max_non_outlier_cluster_count,
                labels_full, values)
        second == IF Len(label_results) = 0
                  THEN <<Sentinel(upper_bound_n_cluster, seed)>>
                  ELSE <<>>
    IN IF label_results # <<>> /\ err_msg
       THEN [yielded |-> first \o second, raised |-> TRUE]
       ELSE [yielded |-> first \o second
                            \o FromLabelResults(label_results, seed),
             raised |-> FALSE]

\* --------------------------------------------------------- best selection
\* a selection that also replaces the best on an equal score
IterateStepOnTie(best, cluster_result) ==
    IF best = <<>> THEN <<cluster_result>>
    ELSE IF best[1].score_unable_to_be_calculated
            /\ ~cluster_result.score_unable_to_be_calculated
         THEN <<cluster_result>>
    ELSE IF cluster_result.score_unable_to_be_calculated THEN best
    ELSE IF best[1].score >= cluster_result.score THEN <<cluster_result>>
    ELSE best

\* a selection that compares the scores without looking at the flags
IterateStepScoreOnly(best, cluster_result) ==
    IF best = <<>> THEN <<cluster_result>>
    ELSE IF best[1].score > cluster_result.score THEN <<cluster_result>>
    ELSE best

\* a selection that keeps the higher score
IterateStepHigher(best, cluster_result) ==
    IF best = <<>> THEN <<cluster_result>>
    ELSE IF best[1].score_unable_to_be_calculated
            /\ ~cluster_result.score_unable_to_be_calculated
         THEN <<cluster_result>>
    ELSE IF cluster_result.score_unable_to_be_calculated THEN best
    ELSE IF best[1].score < cluster_result.score THEN <<cluster_result>>
    ELSE best

\* one pass of the loop body of _iterate_best_found_cluster
\* a step that lets a result without a score replace one that has a score
IterateStepUnavailableWins(best, cluster_result) ==
    IF best = <<>> THEN <<cluster_result>>
    ELSE IF cluster_result.score_unable_to_be_calculated THEN <<cluster_result>>
    ELSE IF best[1].score_unable_to_be_calculated THEN <<cluster_result>>
    ELSE IF best[1].score > cluster_result.score THEN <<cluster_result>>
    ELSE best

IterateStep(best, cluster_result) ==
    IF best = <<>> THEN <<cluster_result>>
    ELSE IF best[1].score_unable_to_be_calculated
            /\ ~cluster_result.score_unable_to_be_calculated
         THEN <<cluster_result>>
    ELSE IF cluster_result.score_unable_to_be_calculated THEN best
    ELSE IF best[1].score > cluster_result.score THEN <<cluster_result>>
    ELSE best

RECURSIVE IterateLoop(_, _)
IterateLoop(best, cluster_results) ==
    IF cluster_results = <<>> THEN best
    ELSE IterateLoop(IterateStep(best, Head(cluster_results)),
                     Tail(cluster_results))

\* _iterate_best_found_cluster: <<the best>>, or <<>> when it raises
\* ValueError("best scored cluster is None")
IterateBestFoundCluster(cluster_results) == IterateLoop(<<>>, cluster_results)

\* an element that records the number of the pass as its seed
ClusterScoreElementSeedLost(iteration, seed, best) ==
    [iteration |-> iteration, seed |-> iteration, n_clusters |-> best.n_clusters,
     score |-> best.score,
     score_unable_to_be_calculated |-> best.score_unable_to_be_calculated]

\* ------------------------------------------------------ multi-seed driver
ClusterScoreElement(iteration, seed, best) ==
    [iteration |-> iteration, seed |-> seed, n_clusters |-> best.n_clusters,
     score |-> best.score,
     score_unable_to_be_calculated |-> best.score_unable_to_be_calculated]

\* an update that hands the two results over in the other order
UpdateBestSwapped(best, cluster_result) ==
    IF best = <<>> THEN <<cluster_result>>
    ELSE IterateBestFoundCluster(<<cluster_result, best[1]>>)

\* an update that always takes the result of the latest seed
UpdateBestReplaces(best, cluster_result) == <<cluster_result>>

\* the update of best_scored_cluster in get_best_scored_cluster_result
UpdateBest(best, cluster_result) ==
    IF best = <<>> THEN <<cluster_result>>
    ELSE IterateBestFoundCluster(<<best[1], cluster_result>>)

\* a trace that takes the new element at its front
PrependScoreElement(elements, inc, seed, best) ==
    <<ClusterScoreElement(inc + 1, seed, best)>> \o elements

\* score_elements.append of the element _get_all_cluster_result_generator
\* builds for the loop index inc
AppendScoreElement(elements, inc, seed, best) ==
    Append(elements, ClusterScoreElement(inc + 1, seed, best))

\* --------------------------------------------------------- final result
\* a load-shape table that keeps the row of the outlier cluster
ClusterLoadshapeClustersWithOutliers(cluster_df) ==
    SortedSeq({c \in {cluster_df[j][2] : j \in 1..Len(cluster_df)} : c >= 0})

\* _get_cluster_ls and _transform_cluster_loadshape: the clusters that have
\* a row in the normalized cluster load-shape table (the load values are not
\* modelled): the clusters of cluster_df above 0
ClusterLoadshapeClusters(cluster_df) ==
    SortedSeq({c \in {cluster_df[j][2] : j \in 1..Len(cluster_df)} : c > 0})

ClusterResult(cluster_df, cluster_ls, cr, unable, score_elems) ==
    [cluster_df |-> cluster_df, cluster_loadshape_transformed_df |-> cluster_ls,
     n_clusters |-> cr.n_clusters, score |-> cr.score,
     score_unable_to_be_calculated |-> unable, seed |-> cr.seed,
     iter_scores |-> score_elems]

\* a constructor without the branch for a score that could not be calculated
FromClusterResultAndAggTypeNoBranch(cluster_result, score_elems) ==
    <<ClusterResult(cluster_result.cluster_df,
          ClusterLoadshapeClusters(cluster_result.cluster_df), cluster_result,
          cluster_result.score_unable_to_be_calculated, score_elems)>>

\* ClusterResult.from_cluster_result_and_agg_type: <<the ClusterResult>>, or
\* <<>> when it raises: with no cluster above 0 in cluster_df,
\* _transform_cluster_loadshape concatenates an empty list (and _get_cluster_ls
\* finds no "id" column in an empty cluster_df)
FromClusterResultAndAggType(cluster_result, score_elems) ==
    IF cluster_result.score_unable_to_be_calculated
    THEN <<ClusterResult(<<>>, <<>>, cluster_result, TRUE, score_elems)>>
    ELSE IF ClusterLoadshapeClusters(cluster_result.cluster_df) = <<>>
    THEN <<>>
    ELSE <<ClusterResult(cluster_result.cluster_df,
               ClusterLoadshapeClusters(cluster_result.cluster_df),
               cluster_result,
               cluster_result.score_unable_to_be_calculated, score_elems)>>

\* ============================ get_best_scored_cluster_result, then the
\* construction of the ClusterResult
Configs ==
    [min_cluster_size : MinClusterSizes,
     cluster_bound_lower : LowerBounds,
     cluster_bound_upper : UpperBounds,
     max_non_outlier_cluster_count : MaxNonOutlierCounts,
     seed : StartSeeds,
     n_iter_cluster : IterCounts]

Init ==
    /\ transform \in [err_msg : BOOLEAN, n : SampleCounts]
    /\ cfg \in Configs
    /\ pc = "loop"
    /\ seed_inc = 0
    /\ best_scored_cluster = <<>>
    /\ score_elements = <<>>
    /\ all_cands = <<>>
    /\ hlg_calls = 0
    /\ score_calls = 0
    /\ final = <<>>
    /\ arg = <<>>
    /\ ret = <<>>

\* the inputs of the label generator and of the scorer for one seed: when
\* _get_all_label_results returns early, neither is called
LabelsFullChoices ==
    IF Feasible(transform.n, cfg.cluster_bound_upper)
    THEN LabelsFull(transform.n, cfg.cluster_bound_upper)
    ELSE {<<>>}

ValueChoices ==
    IF Feasible(transform.n, cfg.cluster_bound_upper)
    THEN [2..cfg.cluster_bound_upper -> Scores]
    ELSE {<<>>}

Generated(seed, labels_full, values) ==
    ClusterResultGenerator(transform.err_msg, transform.n,
        cfg.cluster_bound_upper, cfg.cluster_bound_lower, cfg.min_cluster_size,
        cfg.max_non_outlier_cluster_count, seed, labels_full, values)

Called(gen) ==
    /\ all_cands' = all_cands \o gen.yielded
    /\ hlg_calls' = hlg_calls
            + (IF Feasible(transform.n, cfg.cluster_bound_upper) THEN 1 ELSE 0)
    /\ score_calls' = score_calls
            + ScoreCallsOf(transform.n, cfg.cluster_bound_upper,
                           cfg.cluster_bound_lower)

\* one pass of the loop of _get_all_cluster_result_generator and of the loop
\* of get_best_scored_cluster_result that consumes it
SeedIteration ==
    /\ pc = "loop"
    /\ seed_inc < cfg.n_iter_cluster
    /\ \E labels_full \in LabelsFullChoices, values \in ValueChoices :
         LET incremented_seed == cfg.seed + seed_inc
             gen == Generated(incremented_seed, labels_full, values)
             best_for_seed == IterateBestFoundCluster(gen.yielded)[1]
         IN /\ ~gen.raised
            /\ Called(gen)
            /\ score_elements' = AppendScoreElement(score_elements, seed_inc,
                                     incremented_seed, best_for_seed)
            /\ best_scored_cluster' =
                    UpdateBest(best_scored_cluster, best_for_seed)
            /\ seed_inc' = seed_inc + 1
    /\ UNCHANGED <<transform, cfg, pc, final, arg, ret>>

\* the same pass when the single-seed generator raises ValueError
SeedIterationRaises ==
    /\ pc = "loop"
    /\ seed_inc < cfg.n_iter_cluster
    /\ \E labels_full \in LabelsFullChoices, values \in ValueChoices :
         LET gen == Generated(cfg.seed + seed_inc, labels_full, values)
         IN /\ gen.raised
            /\ Called(gen)
    /\ pc' = "ValueError"
    /\ UNCHANGED <<transform, cfg, seed_inc, best_scored_cluster,
                   score_elements, final, arg, ret>>

\* the generator is exhausted: return best_scored_cluster, score_elements
Return ==
    /\ pc = "loop"
    /\ seed_inc = cfg.n_iter_cluster
    /\ best_scored_cluster # <<>>
    /\ pc' = "returned"
    /\ UNCHANGED <<transform, cfg, seed_inc, best_scored_cluster,
                   score_elements, all_cands, hlg_calls, score_calls, final,
                   arg, ret>>

\* a driver that returns None and the empty trace instead of raising
ReturnNone ==
    /\ pc = "loop"
    /\ seed_inc = cfg.n_iter_cluster
    /\ best_scored_cluster = <<>>
    /\ pc' = "returned"
    /\ UNCHANGED <<transform, cfg, seed_inc, best_scored_cluster,
                   score_elements, all_cands, hlg_calls, score_calls, final,
                   arg, ret>>

\* ... or raise Exception("best_scored_cluster is None ...")
RaiseNone ==
    /\ pc = "loop"
    /\ seed_inc = cfg.n_iter_cluster
    /\ best_scored_cluster = <<>>
    /\ pc' = "Exception"
    /\ UNCHANGED <<transform, cfg, seed_inc, best_scored_cluster,
                   score_elements, all_cands, hlg_calls, score_calls, final,
                   arg, ret>>

\* ClusterResult.from_cluster_result_and_agg_type on what was returned
Finalize ==
    /\ pc = "returned"
    /\ final' = FromClusterResultAndAggType(best_scored_cluster[1],
                                            score_elements)
    /\ pc' = IF final' = <<>> THEN "raised" ELSE "final"
    /\ UNCHANGED <<transform, cfg, seed_inc, best_scored_cluster,
                   score_elements, all_cands, hlg_calls, score_calls, arg, ret>>

Next ==
    \/ SeedIteration
    \/ SeedIterationRaises
    \/ Return
    \/ RaiseNone
    \/ Finalize

Spec == Init /\ [][Next]_vars

\* ================== ClusterResult.from_comparison_pool_loadshapes_and_settings
\* the Settings instance handed to the factory
Settings ==
    [min_cluster_size : MinClusterSizes,
     cluster_bound_lower : LowerBounds,
     cluster_bound_upper : UpperBounds,
     max_non_outlier_cluster_count : MaxNonOutlierCounts,
     seed : StartSeeds,
     n_iter_cluster : 1..MaxIter]

\* the arguments the factory passes on to get_best_scored_cluster_result:
\* every one is read from the settings but n_iter_cluster, the literal 1
SettingsToArguments(s) == [s EXCEPT !.n_iter_cluster = 1]

InitSettings ==
    /\ arg \in Settings
    /\ transform \in [err_msg : BOOLEAN, n : SampleCounts]
    /\ cfg = SettingsToArguments(arg)
    /\ pc = "loop"
    /\ seed_inc = 0
    /\ best_scored_cluster = <<>>
    /\ score_elements = <<>>
    /\ all_cands = <<>>
    /\ hlg_calls = 0
    /\ score_calls = 0
    /\ final = <<>>
    /\ ret = <<>>

NextSettings ==
    \/ SeedIteration
    \/ SeedIterationRaises
    \/ Return
    \/ Finalize

SpecSettings == InitSettings /\ [][NextSettings]_vars

\* ================== _iterate_best_found_cluster applied to any candidates
\* the driver's variables while a function is applied on its own
DriverIdle ==
    /\ transform = [err_msg |-> FALSE, n |-> 0]
    /\ cfg = [min_cluster_size |-> 1, cluster_bound_lower |-> 2,
              cluster_bound_upper |-> 2, max_non_outlier_cluster_count |-> 2,
              seed |-> 0, n_iter_cluster |-> 0]
    /\ seed_inc = 0
    /\ best_scored_cluster = <<>>
    /\ score_elements = <<>>
    /\ all_cands = <<>>
    /\ hlg_calls = 0
    /\ score_calls = 0
    /\ final = <<>>

driver_vars == <<transform, cfg, seed_inc, best_scored_cluster, score_elements,
                 all_cands, hlg_calls, score_calls, final>>

\* a candidate: a calculated score, or a score that could not be calculated,
\* whose score field may hold any number
CandidateScores ==
    [score : 0..MaxScore, unable : {FALSE}]
        \cup [score : (0..MaxScore) \cup {MaxScoreFromSystemSize}, unable : {TRUE}]

\* the candidates in the order they are visited: the i-th has i + 1 clusters
CandidateSeqs ==
    UNION {
        {[i \in 1..len |->
            ClusterResultIntermediate(i + 1, f[i].score, <<>>, <<>>,
                                      f[i].unable, 0)] :
            f \in [1..len -> CandidateScores]} :
        len \in 0..MaxCands}

\* the loop of get_best_scored_cluster_result over the given results
RECURSIVE FoldBest(_, _)
FoldBest(best, cluster_results) ==
    IF cluster_results = <<>> THEN best
    ELSE FoldBest(UpdateBest(best, Head(cluster_results)),
                  Tail(cluster_results))

InitSelect ==
    /\ DriverIdle
    /\ pc = "call"
    /\ arg \in CandidateSeqs
    /\ ret = <<>>

\* returns the best of arg: ret[1] by one call, ret[2] by the running update
\* of get_best_scored_cluster_result
Select ==
    /\ pc = "call"
    /\ IterateBestFoundCluster(arg) # <<>>
    /\ ret' = <<IterateBestFoundCluster(arg)[1], FoldBest(<<>>, arg)[1]>>
    /\ pc' = "done"
    /\ UNCHANGED <<driver_vars, arg>>

\* raise ValueError("best scored cluster is None")
SelectRaises ==
    /\ pc = "call"
    /\ IterateBestFoundCluster(arg) = <<>>
    /\ pc' = "raised"
    /\ UNCHANGED <<driver_vars, arg, ret>>

NextSelect == Select \/ SelectRaises

SpecSelect == InitSelect /\ [][NextSelect]_vars

\* get_best_scored_cluster_result and _iterate_best_found_cluster, each
\* called on its own: the behaviours of both
InitZero == Init \/ InitSelect

NextZero == Next \/ NextSelect

SpecZero == InitZero /\ [][NextZero]_vars

\* ===================== _final_cluster_renumber applied to any label vector
LabelIds == {0, 1, 2}

LabelVectors == UNION {[1..len -> LabelIds] : len \in 0..MaxLen}

InitRenumber ==
    /\ DriverIdle
    /\ pc = "call"
    /\ arg \in [clusters : LabelVectors, min_cluster_size : {1, 2, 3}]
    /\ ret = <<>>

Renumber ==
    /\ pc = "call"
    /\ ret' = FinalClusterRenumber(arg.clusters, arg.min_cluster_size)
    /\ pc' = "done"
    /\ UNCHANGED <<driver_vars, arg>>

\* the post-processor applied to its own output, same min_cluster_size
RenumberAgain ==
    /\ pc = "done"
    /\ arg' = [arg EXCEPT !.clusters = ret]
    /\ ret' = FinalClusterRenumber(ret, arg.min_cluster_size)
    /\ pc' = "done2"
    /\ UNCHANGED driver_vars

NextRenumber == Renumber \/ RenumberAgain

SpecRenumber == InitRenumber /\ [][NextRenumber]_vars

\* ======== from_cluster_result_and_agg_type applied to any intermediate result
\* an intermediate result with any flag and either table
Intermediates ==
    UNION {
        {ClusterResultIntermediate(2, sc.score, labels, cluster_df, sc.unable, 0) :
            sc \in CandidateScores,
            cluster_df \in {<<>>, CreateClusterDataframe(labels)}} :
        labels \in UNION {[1..len -> LabelIds] : len \in 0..(MaxLen - 1)}}

InitFinal ==
    /\ DriverIdle
    /\ pc = "call"
    /\ arg \in Intermediates
    /\ ret = <<>>

Construct ==
    /\ pc = "call"
    /\ FromClusterResultAndAggType(arg, <<>>) # <<>>
    /\ ret' = FromClusterResultAndAggType(arg, <<>>)
    /\ pc' = "done"
    /\ UNCHANGED <<driver_vars, arg>>

ConstructRaises ==
    /\ pc = "call"
    /\ FromClusterResultAndAggType(arg, <<>>) = <<>>
    /\ pc' = "raised"
    /\ UNCHANGED <<driver_vars, arg, ret>>

NextFinal == Construct \/ ConstructRaises

SpecFinal == InitFinal /\ [][NextFinal]_vars

\* ============ ClusterResult.get_match_treatment_to_cluster_df on any result
Shapes == 0..MaxShape

\* the distance of a normalized treatment load shape to a normalized cluster
\* load shape (a shape is one number)
Dist(a, b) == IF a > b THEN a - b ELSE b - a

\* _fit.t_meter_match: the clusters of the load-shape table nearest to the
\* treatment load shape
TMeterMatch(ls_t, ls_clusters, shape) ==
    {c \in Range(ls_clusters) :
        \A d \in Range(ls_clusters) : Dist(ls_t, shape[c]) <= Dist(ls_t, shape[d])}

\* the finalized results of an available best, and of an unavailable best
MatchResults ==
    {FromClusterResultAndAggType(
        ClusterResultIntermediate(2, 0, labels, CreateClusterDataframe(labels),
                                  unable, 0), <<>>)[1] :
        labels \in {l \in UNION {[1..len -> LabelIds] : len \in 1..(MaxLen - 1)} :
                       \E i \in 1..Len(l) : l[i] > 0},
        unable \in BOOLEAN}

InitMatch ==
    /\ DriverIdle
    /\ pc = "call"
    /\ arg \in [result : MatchResults,
                shape : [LabelIds -> Shapes],
                treatment : UNION {[1..len -> Shapes] : len \in 1..2}]
    /\ ret = <<>>

\* _match_treatment_to_cluster: one t_meter_match for each treatment meter
MatchTreatmentToCluster ==
    /\ pc = "call"
    /\ arg.result.cluster_loadshape_transformed_df # <<>>
    /\ \E df_t_coeffs \in [1..Len(arg.treatment) -> LabelIds] :
          /\ \A id \in 1..Len(arg.treatment) :
                df_t_coeffs[id] \in
                    TMeterMatch(arg.treatment[id],
                        arg.result.cluster_loadshape_transformed_df, arg.shape)
          /\ ret' = df_t_coeffs
    /\ pc' = "done"
    /\ UNCHANGED <<driver_vars, arg>>

\* the column "ls" of an empty table does not exist
MatchTreatmentToClusterRaises ==
    /\ pc = "call"
    /\ arg.result.cluster_loadshape_transformed_df = <<>>
    /\ pc' = "KeyError"
    /\ UNCHANGED <<driver_vars, arg, ret>>

NextMatch == MatchTreatmentToCluster \/ MatchTreatmentToClusterRaises

SpecMatch == InitMatch /\ [][NextMatch]_vars

\* ================= Individual_Meter_Matching.get_comparison_group
\* rows of df_raw with the comparison-pool meter `id`
CountOfId(df_raw, id) == Cardinality({j \in 1..Len(df_raw) : df_raw[j].id = id})

\* a frame whose column duplicated is computed with keep="first"
CreateClustersDfKeepFirst(df_raw) ==
    [j \in 1..Len(df_raw) |->
        [id |-> df_raw[j].id, treatment |-> df_raw[j].treatment,
         distance |-> df_raw[j].distance,
         duplicated |-> \E k \in 1..(j - 1) : df_raw[k].id = df_raw[j].id,
         cluster |-> 0,
         weight |-> IF \E k \in 1..(j - 1) : df_raw[k].id = df_raw[j].id
                    THEN 0 ELSE CountOfId(df_raw, df_raw[j].id)]]

\* _create_clusters_df: cluster 0, weight = count of the id and 0 on the rows
\* after the id's first, duplicated = the id is on more than one row
CreateClustersDf(df_raw) ==
    [j \in 1..Len(df_raw) |->
        [id |-> df_raw[j].id, treatment |-> df_raw[j].treatment,
         distance |-> df_raw[j].distance,
         duplicated |-> \E k \in 1..Len(df_raw) :
                            k # j /\ df_raw[k].id = df_raw[j].id,
         cluster |-> 0,
         weight |-> IF \E k \in 1..(j - 1) : df_raw[k].id = df_raw[j].id
                    THEN 0 ELSE CountOfId(df_raw, df_raw[j].id)]]

\* DistanceMatching.get_comparison_group with one match per treatment meter:
\* one row per treatment meter, holding a comparison-pool meter and a distance
DistanceMatchingFrames(n_treatment, n_pool) ==
    {[t \in 1..n_treatment |->
        [id |-> m[t].id, treatment |-> t, distance |-> m[t].distance]] :
        m \in [1..n_treatment -> [id : 1..n_pool, distance : {0, 1}]]}

InitIndividual ==
    /\ DriverIdle
    /\ pc = "call"
    /\ arg \in [n_treatment : 1..MaxTreatment, n_pool : 1..MaxPool]
    /\ ret = <<>>

GetComparisonGroup ==
    /\ pc = "call"
    /\ \E df_raw \in DistanceMatchingFrames(arg.n_treatment, arg.n_pool) :
          ret' = CreateClustersDf(df_raw)
    /\ pc' = "done"
    /\ UNCHANGED <<driver_vars, arg>>

NextIndividual == GetComparisonGroup

SpecIndividual == InitIndividual /\ [][NextIndividual]_vars

\* ========== _get_bisecting_kmeans_cluster_label_dict applied to any data
InitLabels ==
    /\ DriverIdle
    /\ pc = "call"
    /\ arg \in {a \in [n : 2..MaxRows, n_clusters : 2..MaxRows] : a.n_clusters <= a.n}
    /\ ret = <<>>

\* algo.fit(data); return algo.labels_full
GetBisectingKMeansClusterLabelDict ==
    /\ pc = "call"
    /\ ret' \in LabelsFull(arg.n, arg.n_clusters)
    /\ pc' = "done"
    /\ UNCHANGED <<driver_vars, arg>>

NextLabels == GetBisectingKMeansClusterLabelDict

SpecLabels == InitLabels /\ [][NextLabels]_vars

\* ===== the selection per seed and across seeds, applied to any candidates
\* the candidates of the seed sd, in the order they are yielded
SeedCandidateSeqs(sd) ==
    UNION {
        {[i \in 1..len |->
            ClusterResultIntermediate(i + 1, f[i].score, <<>>, <<>>,
                                      f[i].unable, sd)] :
            f \in [1..len -> CandidateScores]} :
        len \in 1..2}

\* the candidate sequences of one or two seeds
SeedRuns ==
    {<<a>> : a \in SeedCandidateSeqs(0)}
        \cup {<<a, b>> : a \in SeedCandidateSeqs(0), b \in SeedCandidateSeqs(1)}

\* the results _get_all_cluster_result_generator yields: each seed's best
RECURSIVE SeedBests(_)
SeedBests(runs) ==
    IF runs = <<>> THEN <<>>
    ELSE <<IterateBestFoundCluster(Head(runs))[1]>> \o SeedBests(Tail(runs))

RECURSIVE Concatenation(_)
Concatenation(runs) ==
    IF runs = <<>> THEN <<>> ELSE Head(runs) \o Concatenation(Tail(runs))

InitTwoLevel ==
    /\ DriverIdle
    /\ pc = "call"
    /\ arg \in SeedRuns
    /\ ret = <<>>

\* ret[1]: the best as get_best_scored_cluster_result finds it, ret[2]: one
\* selection over all the candidates
TwoLevelSelect ==
    /\ pc = "call"
    /\ ret' = <<FoldBest(<<>>, SeedBests(arg))[1],
                IterateBestFoundCluster(Concatenation(arg))[1]>>
    /\ pc' = "done"
    /\ UNCHANGED <<driver_vars, arg>>

NextTwoLevel == TwoLevelSelect

SpecTwoLevel == InitTwoLevel /\ [][NextTwoLevel]_vars

\* ================================== _utils/data_processing.py: Data.set_data
MeterIds == {1, 2}

\* an argument of set_data that is None
NoDataFrame == [given |-> FALSE, columns_ok |-> TRUE, rows |-> {}]

\* loadshape_df: a row is <<id, valid>>, valid = the id has the time counts
\* and the values the validation asks for
LoadshapeFrames ==
    {[given |-> TRUE, columns_ok |-> FALSE, rows |-> {}]}
        \cup {[given |-> TRUE, columns_ok |-> TRUE, rows |-> r] :
                r \in {x \in SUBSET (MeterIds \X BOOLEAN) :
                          \A a, b \in x : a[1] = b[1] => a = b}}

\* time_series_df: a row is <<id, fine, valid>>, fine = the id's time
\* interval is not above the one of the time period
TimeSeriesFrames ==
    {[given |-> TRUE, columns_ok |-> FALSE, rows |-> {}]}
        \cup {[given |-> TRUE, columns_ok |-> TRUE, rows |-> r] :
                r \in {x \in SUBSET (MeterIds \X BOOLEAN \X BOOLEAN) :
                          \A a, b \in x : a[1] = b[1] => a = b}}

\* features_df: a row is <<id, complete>>, complete = no value is missing;
\* an id may have a row of either kind
FeaturesFrames ==
    {[given |-> TRUE, columns_ok |-> FALSE, rows |-> {}]}
        \cup {[given |-> TRUE, columns_ok |-> TRUE, rows |-> r] :
                r \in SUBSET (MeterIds \X BOOLEAN)}

\* a frame that was not validated, a table that is None, a table of ids
Unset == [state |-> "unset", ids |-> {}]
NoneTable == [state |-> "None", ids |-> {}]
Table(ids) == [state |-> "table", ids |-> ids]

\* Data.__init__: excluded_ids is empty; loadshape and features are not set
NewData == [excluded_ids |-> {}, loadshape |-> Unset, features |-> Unset]

\* _validate_format_loadshape: [raised, df, excluded_ids]
ValidateFormatLoadshape(df, excluded_ids) ==
    IF ~df.columns_ok
    THEN [raised |-> TRUE, df |-> Unset, excluded_ids |-> excluded_ids]
    ELSE [raised |-> FALSE,
          df |-> Table({r[1] : r \in df.rows}),
          excluded_ids |-> excluded_ids \cup {r[1] : r \in {x \in df.rows : ~x[2]}}]

\* _convert_timeseries_to_loadshape
ConvertTimeseriesToLoadshape(time_series_df, excluded_ids) ==
    IF ~time_series_df.columns_ok
    THEN [raised |-> TRUE, df |-> Unset, excluded_ids |-> excluded_ids]
    ELSE ValidateFormatLoadshape(
            [given |-> TRUE, columns_ok |-> TRUE,
             rows |-> {<<r[1], r[3]>> : r \in time_series_df.rows}],
            excluded_ids \cup {r[1] : r \in {x \in time_series_df.rows : ~x[2]}})

\* a validation that does not drop the ids excluded so far
ValidateFormatFeaturesNoDrop(df, excluded_ids) ==
    IF ~df.columns_ok
    THEN [raised |-> TRUE, df |-> Unset, excluded_ids |-> excluded_ids]
    ELSE [raised |-> FALSE,
          df |-> Table({r[1] : r \in {x \in df.rows : x[2]}}),
          excluded_ids |-> excluded_ids \cup {r[1] : r \in {x \in df.rows : ~x[2]}}]

\* _validate_format_features
ValidateFormatFeatures(df, excluded_ids) ==
    IF ~df.columns_ok
    THEN [raised |-> TRUE, df |-> Unset, excluded_ids |-> excluded_ids]
    ELSE LET excluded == excluded_ids \cup {r[1] : r \in {x \in df.rows : ~x[2]}}
         IN [raised |-> FALSE,
             df |-> Table({r[1] : r \in {x \in df.rows : x[2]}} \ excluded),
             excluded_ids |-> excluded]

\* set_data on the object self: the exception it ends with ("set" when it
\* returns) and the object afterwards
SetDataOutcome(self, loadshape_df, time_series_df, features_df) ==
    IF ~loadshape_df.given /\ ~time_series_df.given /\ ~features_df.given
    THEN [pc |-> "ValueError_none", self |-> self]
    ELSE IF loadshape_df.given /\ time_series_df.given
    THEN [pc |-> "ValueError_both", self |-> self]
    ELSE LET ls == IF loadshape_df.given
                   THEN ValidateFormatLoadshape(loadshape_df, self.excluded_ids)
                   ELSE IF time_series_df.given
                   THEN ConvertTimeseriesToLoadshape(time_series_df,
                                                     self.excluded_ids)
                   ELSE [raised |-> FALSE, df |-> NoneTable,
                         excluded_ids |-> self.excluded_ids]
             ft == IF features_df.given
                   THEN ValidateFormatFeatures(features_df, ls.excluded_ids)
                   ELSE [raised |-> FALSE, df |-> NoneTable,
                         excluded_ids |-> ls.excluded_ids]
         IN IF ls.raised
            THEN [pc |-> "ValueError_columns", self |-> self]
            ELSE IF ft.raised
            THEN [pc |-> "ValueError_columns",
                  self |-> [self EXCEPT !.excluded_ids = ls.excluded_ids]]
            ELSE [pc |-> "set",
                  self |-> [excluded_ids |-> ft.excluded_ids,
                            loadshape |->
                                IF ls.df.state = "table"
                                THEN Table(ls.df.ids \ ft.excluded_ids)
                                ELSE NoneTable,
                            features |-> ft.df]]

\* the ids on the rows of the frames of one call
Offered(loadshape_df, time_series_df, features_df) ==
    {r[1] : r \in loadshape_df.rows} \cup {r[1] : r \in time_series_df.rows}
        \cup {r[1] : r \in features_df.rows}

\* ret is the Data object, arg the object before the latest call
InitData ==
    /\ DriverIdle
    /\ pc = "new"
    /\ arg = [before |-> NewData, calls |-> 0, offered |-> {}]
    /\ ret = NewData

\* one call of set_data with the given frames, ending as `ending`
SetDataCall(loadshape_df, time_series_df, features_df, endings) ==
    LET outcome == SetDataOutcome(ret, loadshape_df, time_series_df, features_df)
    IN /\ arg.calls < MaxCalls
       /\ outcome.pc \in endings
       /\ pc' = outcome.pc
       /\ ret' = outcome.self
       /\ arg' = [before |-> ret, calls |-> arg.calls + 1,
                  offered |-> Offered(loadshape_df, time_series_df, features_df)]
       /\ UNCHANGED driver_vars

SetData ==
    /\ pc \in {"new", "set", "ValueError_none", "ValueError_both", "ValueError_columns"}
    /\ \/ \E ls \in LoadshapeFrames, ft \in FeaturesFrames \cup {NoDataFrame} :
             SetDataCall(ls, NoDataFrame, ft, {"set"})
       \/ \E ts \in TimeSeriesFrames, ft \in FeaturesFrames \cup {NoDataFrame} :
             SetDataCall(NoDataFrame, ts, ft, {"set"})
       \/ \E ft \in FeaturesFrames : SetDataCall(NoDataFrame, NoDataFrame, ft, {"set"})

\* raise ValueError: no dataframe, or both a loadshape and a time series
SetDataRaises ==
    /\ pc \in {"new", "set", "ValueError_none", "ValueError_both", "ValueError_columns"}
    /\ \/ SetDataCall(NoDataFrame, NoDataFrame, NoDataFrame, {"ValueError_none"})
       \/ \E ls \in LoadshapeFrames, ts \in TimeSeriesFrames,
             ft \in FeaturesFrames \cup {NoDataFrame} :
             SetDataCall(ls, ts, ft, {"ValueError_both"})

\* raise ValueError: a frame lacks a column
SetDataRaisesColumns ==
    /\ pc \in {"new", "set", "ValueError_none", "ValueError_both", "ValueError_columns"}
    /\ \/ \E ls \in LoadshapeFrames, ft \in FeaturesFrames \cup {NoDataFrame} :
             SetDataCall(ls, NoDataFrame, ft, {"ValueError_columns"})
       \/ \E ts \in TimeSeriesFrames, ft \in FeaturesFrames \cup {NoDataFrame} :
             SetDataCall(NoDataFrame, ts, ft, {"ValueError_columns"})
       \/ \E ft \in FeaturesFrames :
             SetDataCall(NoDataFrame, NoDataFrame, ft, {"ValueError_columns"})

NextData == SetData \/ SetDataRaises \/ SetDataRaisesColumns

SpecData == InitData /\ [][NextData]_vars

\* ==================================================================== claims
\* the results the single-seed generator yielded for the seed sd
CandsOfSeed(sd) == SelectSeq(all_cands, LAMBDA c : c.seed = sd)

\* the seeds the single-seed generator was run for, to its end or to its raise
CalledSeeds ==
    {cfg.seed + i : i \in 0..(seed_inc - 1)}
        \cup (IF pc = "ValueError" THEN {cfg.seed + seed_inc} ELSE {})

Infeasible == ~Feasible(transform.n, cfg.cluster_bound_upper)

Available(results) ==
    {i \in 1..Len(results) : ~results[i].score_unable_to_be_calculated}

MinScore(results) ==
    CHOOSE m \in {results[i].score : i \in Available(results)} :
        \A i \in Available(results) : m <= results[i].score

\* C1: the single-seed generator, run on empty data, on a single sample or
\* with a transform whose err_msg is set, yields exactly one result, that
\* result is flagged score_unable_to_be_calculated, and it does not raise.
C1_SentinelGuarantee ==
    (transform.n = 0 \/ transform.n = 1 \/ transform.err_msg) =>
        /\ pc # "ValueError"
        /\ \A sd \in CalledSeeds :
              /\ Len(CandsOfSeed(sd)) = 1
              /\ CandsOfSeed(sd)[1].score_unable_to_be_calculated

\* C2: with err_msg set, neither the label generator nor the scorer is ever
\* called, for any seed, and what is yielded is the sentinel.
C2_ShortCircuit ==
    transform.err_msg =>
        /\ hlg_calls = 0
        /\ score_calls = 0
        /\ pc # "ValueError"
        /\ \A i \in 1..Len(all_cands) :
              all_cands[i] = Sentinel(cfg.cluster_bound_upper, all_cands[i].seed)

C4_AvailabilityDominance ==
    (pc = "done" /\ Available(arg) # {}) =>
        /\ ~ret[1].score_unable_to_be_calculated
        /\ ~ret[2].score_unable_to_be_calculated

C4_Witness ==
    /\ pc = "done"
    /\ Len(arg) >= 2
    /\ arg[1].score_unable_to_be_calculated
    /\ arg[1].score = 0
    /\ \E i \in Available(arg) : arg[i].score > 0
    /\ ~ret[1].score_unable_to_be_calculated

\* C5: after N >= 1 seeds, if an element of the trace has a score that could
\* be calculated, so has the global best, its score is the minimum of those
\* scores of the trace, and no candidate of any seed with a calculated score
\* has a lower score.
C5_GlobalBestIsMinimum ==
    (pc \in {"returned", "final"} /\ Available(score_elements) # {}) =>
        /\ ~best_scored_cluster[1].score_unable_to_be_calculated
        /\ best_scored_cluster[1].score = MinScore(score_elements)
        /\ \A i \in Available(all_cands) :
              best_scored_cluster[1].score <= all_cands[i].score

C5_Witness ==
    /\ pc = "returned"
    /\ Len(score_elements) = 2
    /\ Available(score_elements) = {1, 2}
    /\ score_elements[1].score > score_elements[2].score
    /\ best_scored_cluster[1].seed = score_elements[2].seed

\* C6: within one seed, when candidates tie on the seed's minimal calculated
\* score, the seed's best is the one with the smallest cluster count.
C6_TieWithinSeed ==
    \A e \in 1..Len(score_elements) :
        LET cs == CandsOfSeed(score_elements[e].seed)
        IN Available(cs) # {} =>
              /\ ~score_elements[e].score_unable_to_be_calculated
              /\ score_elements[e].score = MinScore(cs)
              /\ \A i \in Available(cs) :
                    cs[i].score = MinScore(cs) =>
                        score_elements[e].n_clusters <= cs[i].n_clusters

C6_Witness ==
    /\ Len(score_elements) >= 1
    /\ LET cs == CandsOfSeed(score_elements[1].seed)
       IN /\ Len(cs) = 2
          /\ Available(cs) = {1, 2}
          /\ cs[1].score = cs[2].score
          /\ cs[1].n_clusters = 2
          /\ cs[2].n_clusters = 3
          /\ score_elements[1].n_clusters = 2

\* C7: across seeds, when the bests of several seeds tie on the minimal
\* calculated score, the global best is the one of the earliest seed.
C7_TieAcrossSeeds ==
    (best_scored_cluster # <<>> /\ Available(score_elements) # {}) =>
        \A i \in Available(score_elements) :
            score_elements[i].score = MinScore(score_elements) =>
                best_scored_cluster[1].seed <= score_elements[i].seed

C7_Witness ==
    /\ pc = "returned"
    /\ Len(score_elements) = 2
    /\ Available(score_elements) = {1, 2}
    /\ score_elements[1].score = score_elements[2].score
    /\ best_scored_cluster[1].seed = cfg.seed

\* C8: for every n_iter_cluster = N >= 1 and start seed s, the call returns
\* a trace of exactly N elements, the i-th with iteration = i and seed =
\* s + i - 1, whether or not a score could be calculated.
C8_TraceOfN ==
    (cfg.n_iter_cluster >= 1 /\ pc # "loop") =>
        /\ pc # "ValueError"
        /\ Len(score_elements) = cfg.n_iter_cluster
        /\ \A i \in 1..Len(score_elements) :
              /\ score_elements[i].iteration = i
              /\ score_elements[i].seed = cfg.seed + i - 1

\* C9: the labels the post-processor returns use the ids 1..k for the k
\* surviving clusters, without a gap, and 0 for the rows of the clusters that
\* had fewer than min_cluster_size members; every id >= 1 has at least
\* min_cluster_size members, and rows share an id >= 1 exactly when they
\* shared a cluster.
C9_Renumbering ==
    pc = "done" =>
        LET ids == {c \in Range(ret) : c >= 1}
            k == Cardinality(ids)
            rows == 1..Len(arg.clusters)
        IN /\ Len(ret) = Len(arg.clusters)
           /\ Range(ret) \subseteq 0..k
           /\ ids = 1..k
           /\ \A c \in ids : ClusterSize(ret, c) >= arg.min_cluster_size
           /\ \A i \in rows :
                 ret[i] = 0 <=>
                    ClusterSize(arg.clusters, arg.clusters[i]) < arg.min_cluster_size
           /\ \A i, j \in rows :
                 (ret[i] >= 1 /\ ret[j] >= 1) =>
                    (ret[i] = ret[j] <=> arg.clusters[i] = arg.clusters[j])

C9_Witness ==
    /\ pc = "done"
    /\ arg.min_cluster_size = 2
    /\ arg.clusters = <<1, 0, 0, 2>>
    /\ ret = <<0, 1, 1, 0>>

\* C10: a ClusterResult flagged score_unable_to_be_calculated has an empty
\* cluster table and an empty normalized cluster load-shape table, whatever
\* the intermediate result it is built from holds.
C10_UnavailableHasEmptyTables ==
    (pc = "done" /\ ret[1].score_unable_to_be_calculated) =>
        /\ ret[1].cluster_df = <<>>
        /\ ret[1].cluster_loadshape_transformed_df = <<>>

C10_Witness ==
    /\ pc = "done"
    /\ arg.score_unable_to_be_calculated
    /\ arg.cluster_df # <<>>
    /\ ret[1].score_unable_to_be_calculated
    /\ ret[1].cluster_df = <<>>

\* C11: with n_iter_cluster = 0 get_best_scored_cluster_result raises and
\* returns neither a best nor a trace (it returns only after at least one
\* seed); _iterate_best_found_cluster raises on an empty sequence and returns
\* a result only for a non-empty one.
C11_ZeroResultsRaise ==
    /\ pc \in {"returned", "final"} =>
          /\ cfg.n_iter_cluster >= 1
          /\ best_scored_cluster # <<>>
          /\ Len(score_elements) >= 1
    /\ (cfg.n_iter_cluster = 0 /\ pc \notin {"call", "done", "raised"}) =>
          pc \in {"loop", "Exception"}
    /\ pc = "Exception" =>
          /\ cfg.n_iter_cluster = 0
          /\ best_scored_cluster = <<>>
          /\ score_elements = <<>>
          /\ final = <<>>
    /\ pc = "done" => (arg # <<>> /\ ret # <<>>)
    /\ (pc = "raised" /\ best_scored_cluster = <<>>) => (arg = <<>> /\ ret = <<>>)
    /\ (pc \in {"done", "raised"} /\ arg = <<>>) => pc = "raised"

C11_Witness ==
    /\ pc = "Exception"
    /\ cfg.n_iter_cluster = 0
    /\ transform.n = MaxN
    /\ cfg.cluster_bound_upper = MaxN
    /\ ~transform.err_msg

\* C12: a ClusterResult built by the factory from settings with
\* n_iter_cluster = N has a score trace of exactly N elements, of the seeds
\* seed .. seed + N - 1 in order.
C12_SettingsIterCount ==
    pc = "final" =>
        /\ Len(final[1].iter_scores) = arg.n_iter_cluster
        /\ \A i \in 1..Len(final[1].iter_scores) :
              final[1].iter_scores[i].seed = arg.seed + i - 1

\* a candidate the scorer flagged, as opposed to the no-candidates sentinel
ScorerUnavailable(c) == c.score_unable_to_be_calculated /\ c.labels # <<>>

\* C13 (as stated): neither a seed's best nor the global best is ever a
\* candidate that the scorer flagged score_unable_to_be_calculated.
C13_UnavailableNeverBest ==
    /\ \A e \in 1..Len(score_elements) :
          LET cs == CandsOfSeed(score_elements[e].seed)
          IN ~(/\ score_elements[e].score_unable_to_be_calculated
               /\ \E i \in 1..Len(cs) :
                     /\ ScorerUnavailable(cs[i])
                     /\ cs[i].n_clusters = score_elements[e].n_clusters)
    /\ best_scored_cluster # <<>> => ~ScorerUnavailable(best_scored_cluster[1])

\* C13 (amended): flagged candidates stay in the candidate sequence, and a
\* flagged candidate is a seed's best or the global best only when no
\* candidate of that seed, or of any seed, has a calculated score; the best is
\* then the first candidate met, which may be one the scorer flagged.
C13_UnavailableBestOnlyIfNoneAvailable ==
    /\ \A e \in 1..Len(score_elements) :
          LET cs == CandsOfSeed(score_elements[e].seed)
          IN score_elements[e].score_unable_to_be_calculated =>
                /\ Available(cs) = {}
                /\ score_elements[e].n_clusters = cs[1].n_clusters
    /\ (best_scored_cluster # <<>>
            /\ best_scored_cluster[1].score_unable_to_be_calculated) =>
          /\ Available(all_cands) = {}
          /\ best_scored_cluster[1] = all_cands[1]

C13_Witness ==
    /\ pc = "returned"
    /\ ScorerUnavailable(best_scored_cluster[1])
    /\ Len(CandsOfSeed(cfg.seed)) = 2
    /\ \A i \in 1..Len(all_cands) : ScorerUnavailable(all_cands[i])

\* the clusters of a stored (post-processed) labelling that survived merging
RemainingClusters(labels) == {l \in Range(labels) : l >= 1}

Degenerate(labels) ==
    \/ Cardinality(RemainingClusters(labels)) < cfg.cluster_bound_lower
    \/ Cardinality(RemainingClusters(labels)) > cfg.max_non_outlier_cluster_count
    \/ Cardinality(RemainingClusters(labels)) < 2

C17_Idempotent == pc = "done2" => ret = arg.clusters

\* C17 (amended): the post-processor applied to its own output returns it
\* unchanged exactly when the outlier class 0 of that output has fewer than
\* min_cluster_size members; otherwise class 0 is taken for a cluster and
\* every id comes back one higher.
C17_IdempotentIffFewOutliers ==
    pc = "done2" =>
        IF ClusterSize(arg.clusters, 0) < arg.min_cluster_size
        THEN ret = arg.clusters
        ELSE /\ ret # arg.clusters
             /\ Len(ret) = Len(arg.clusters)
             /\ \A i \in 1..Len(ret) : ret[i] = arg.clusters[i] + 1

C17_Witness ==
    /\ pc = "done2"
    /\ arg.min_cluster_size = 2
    /\ ClusterSize(arg.clusters, 0) = 1
    /\ ClusterSize(arg.clusters, 1) = 2
    /\ ret = arg.clusters

\* C19: in the comparison group of individual-meter matching with one match
\* per treatment meter, a row is flagged duplicated exactly when its
\* comparison-pool meter is on more than one row, and with more treatment
\* meters than comparison-pool meters at least one row is flagged.
C19_DuplicatedWhenPoolRunsOut ==
    pc = "done" =>
        /\ Len(ret) = arg.n_treatment
        /\ \A j \in 1..Len(ret) :
              ret[j].duplicated <=>
                 Cardinality({k \in 1..Len(ret) : ret[k].id = ret[j].id}) > 1
        /\ arg.n_treatment > arg.n_pool =>
              \E j \in 1..Len(ret) : ret[j].duplicated

C19_Witness ==
    /\ pc = "done"
    /\ arg.n_pool = 2
    /\ arg.n_treatment = 3
    /\ ret[1].duplicated
    /\ ~ret[2].duplicated
    /\ ret[3].duplicated
    /\ ret[3].weight = 0

\* the least cluster count that gets a candidate
LowestCount == IF cfg.cluster_bound_lower > 2 THEN cfg.cluster_bound_lower ELSE 2

\* a stored labelling is a post-processed one: a row per pool meter, 0 for the
\* outliers, the clusters numbered 1..k' at most n_clusters, each of at least
\* min_cluster_size rows
PostProcessed(labels, n_clusters) ==
    /\ Len(labels) = transform.n
    /\ RemainingClusters(labels) = 1..Cardinality(RemainingClusters(labels))
    /\ Range(labels) \subseteq RemainingClusters(labels) \cup {0}
    /\ Cardinality(RemainingClusters(labels)) <= n_clusters
    /\ \A c \in RemainingClusters(labels) :
          ClusterSize(labels, c) >= cfg.min_cluster_size

LevelOf(labels_full, n, k) == IF k = 1 THEN [i \in 1..n |-> 0] ELSE labels_full[k - 1]

\* C21: one fit with n_clusters >= 2 on n >= n_clusters samples returns a
\* label vector for every k in 2..n_clusters; the vector for k has exactly k
\* clusters, and the vector for k + 1 is the vector for k with exactly one
\* cluster, one of the most members, split into two and every other row
\* unchanged.
C21_BisectionLevels ==
    pc = "done" =>
        /\ DOMAIN ret = 1..(arg.n_clusters - 1)
        /\ \A k \in 2..arg.n_clusters :
              /\ Len(LevelOf(ret, arg.n, k)) = arg.n
              /\ Cardinality(Range(LevelOf(ret, arg.n, k))) = k
        /\ \A k \in 2..(arg.n_clusters - 1) :
              LET prev == LevelOf(ret, arg.n, k)
                  next == LevelOf(ret, arg.n, k + 1)
              IN \E c \in Range(prev) :
                    /\ \A d \in Range(prev) :
                          ClusterSize(prev, c) >= ClusterSize(prev, d)
                    /\ \A i \in 1..arg.n : prev[i] # c => next[i] = prev[i]
                    /\ Cardinality({next[i] : i \in Members(prev, c)}) = 2
                    /\ {next[i] : i \in Members(prev, c)}
                          \cap (Range(prev) \ {c}) = {}

C21_Witness ==
    /\ pc = "done"
    /\ arg.n = 5
    /\ arg.n_clusters = 3
    /\ ClusterSize(ret[1], 0) = 3
    /\ ClusterSize(ret[1], 1) = 2
    /\ ClusterSize(ret[2], 1) = 2
    /\ ClusterSize(ret[2], 0) = 1
    /\ ClusterSize(ret[2], 2) = 2

IsPrefix(s, t) == Len(s) <= Len(t) /\ \A i \in 1..Len(s) : t[i] = s[i]

\* C22: the score trace is append-only: a pass of the multi-seed loop appends
\* exactly one element at the end of the trace, whether or not the seed's
\* result replaces the global best; no step changes an element of the trace
\* or a result already yielded, and the global best changes only to a result
\* of the seed of that pass.
C22_TraceAppendOnly ==
    /\ [](Len(score_elements) = seed_inc)
    /\ [][/\ IsPrefix(score_elements, score_elements')
          /\ IsPrefix(all_cands, all_cands')
          /\ Len(score_elements') = Len(score_elements)
                + (IF seed_inc' = seed_inc THEN 0 ELSE 1)
          /\ seed_inc' \in {seed_inc, seed_inc + 1}
          /\ seed_inc' = seed_inc + 1 =>
                score_elements'[seed_inc'].seed = cfg.seed + seed_inc
          /\ best_scored_cluster' # best_scored_cluster =>
                /\ seed_inc' = seed_inc + 1
                /\ best_scored_cluster'[1].seed = cfg.seed + seed_inc]_vars

C22_Witness ==
    /\ pc = "returned"
    /\ Len(score_elements) = 2
    /\ ~score_elements[1].score_unable_to_be_calculated
    /\ ~score_elements[2].score_unable_to_be_calculated
    /\ score_elements[2].score > score_elements[1].score
    /\ best_scored_cluster[1].seed = score_elements[1].seed

\* C23: the cluster table of a candidate with a calculated score has one row
\* for every pool meter and no other row, each row holds the post-processed
\* label of the meter's row, and the rows are in ascending order of cluster;
\* the cluster table of a candidate without a calculated score is empty.
C23_ClusterTable ==
    \A i \in 1..Len(all_cands) :
        LET cand == all_cands[i]
            cluster_df == cand.cluster_df
        IN IF cand.score_unable_to_be_calculated
           THEN cluster_df = <<>>
           ELSE /\ Len(cluster_df) = transform.n
                /\ {cluster_df[j][1] : j \in 1..Len(cluster_df)} = 1..transform.n
                /\ \A j \in 1..Len(cluster_df) :
                      cluster_df[j][2] = cand.labels[cluster_df[j][1]]
                /\ \A j \in 1..(Len(cluster_df) - 1) :
                      cluster_df[j][2] <= cluster_df[j + 1][2]

C23_Witness ==
    \E i \in 1..Len(all_cands) :
        /\ ~all_cands[i].score_unable_to_be_calculated
        /\ all_cands[i].labels = <<1, 3, 2>>
        /\ all_cands[i].cluster_df = << <<1, 1>>, <<3, 2>>, <<2, 3>> >>

\* C24: the global best found by selecting each seed's best and folding the
\* bests across the seeds is the candidate that one selection over all the
\* seeds' candidates, in the order of seed and cluster count, finds, whatever
\* the scores and the flags.
C24_TwoLevelEqualsFlat == pc = "done" => ret[1] = ret[2]

C24_Witness ==
    /\ pc = "done"
    /\ Len(arg) = 2
    /\ Len(arg[1]) = 2
    /\ Len(arg[2]) = 2
    /\ arg[1][1].score_unable_to_be_calculated
    /\ arg[1][1].score = 0
    /\ ~arg[1][2].score_unable_to_be_calculated
    /\ arg[1][2].score = 1
    /\ ~arg[2][1].score_unable_to_be_calculated
    /\ arg[2][1].score = 2
    /\ ~arg[2][2].score_unable_to_be_calculated
    /\ arg[2][2].score = 1
    /\ ret[1] = arg[1][2]

\* whether a trace element holds the fields of the result
SameFields(element, cluster_result) ==
    /\ element.seed = cluster_result.seed
    /\ element.n_clusters = cluster_result.n_clusters
    /\ element.score = cluster_result.score
    /\ element.score_unable_to_be_calculated
          = cluster_result.score_unable_to_be_calculated

\* C25: each element of the trace holds the seed, n_clusters, score and flag
\* of the best selected among its seed's candidates; the returned global best
\* agrees in these fields with exactly one element of the trace, the one of
\* its own seed, and that seed is in seed .. seed + n_iter_cluster - 1.
C25_TraceConsistency ==
    /\ \A e \in 1..Len(score_elements) :
          /\ score_elements[e].seed = cfg.seed + e - 1
          /\ score_elements[e].iteration = e
          /\ SameFields(score_elements[e],
                IterateBestFoundCluster(CandsOfSeed(cfg.seed + e - 1))[1])
    /\ pc \in {"returned", "final"} =>
          LET best == best_scored_cluster[1]
              own == {e \in 1..Len(score_elements) :
                         score_elements[e].seed = best.seed}
          IN /\ best.seed \in cfg.seed..(cfg.seed + cfg.n_iter_cluster - 1)
             /\ Cardinality(own) = 1
             /\ \A e \in own : SameFields(score_elements[e], best)
             /\ pc = "final" =>
                   /\ final[1].seed = best.seed
                   /\ final[1].n_clusters = best.n_clusters
                   /\ final[1].score = best.score
                   /\ final[1].iter_scores = score_elements

C25_Witness ==
    /\ pc = "final"
    /\ cfg.seed = 4
    /\ Len(score_elements) = 2
    /\ best_scored_cluster[1].seed = 5
    /\ ~score_elements[1].score_unable_to_be_calculated
    /\ score_elements[2].score < score_elements[1].score
    /\ score_elements[2].n_clusters # score_elements[1].n_clusters
    /\ SameFields(score_elements[2], best_scored_cluster[1])

\* C26: n_clusters of a candidate that is not the sentinel is the cluster
\* count of the bisection, before the small clusters are merged: the clusters
\* numbered 1 and up in its stored labels are at most n_clusters, and the
\* n_clusters - that many clusters merged away account for its outlier rows;
\* n_clusters of a sentinel is the upper bound handed in, whatever it is; the
\* ClusterResult copies n_clusters of the best.
C26_ClusterCountBeforeMerge ==
    /\ \A i \in 1..Len(all_cands) :
          LET cand == all_cands[i]
              remaining == Cardinality(RemainingClusters(cand.labels))
              merged == cand.n_clusters - remaining
              outliers == ClusterSize(cand.labels, 0)
          IN IF cand.labels = <<>>
             THEN cand.n_clusters = cfg.cluster_bound_upper
             ELSE /\ cand.n_clusters \in 2..cfg.cluster_bound_upper
                  /\ remaining <= cand.n_clusters
                  /\ merged <= outliers
                  /\ outliers <= merged * (cfg.min_cluster_size - 1)
    /\ pc = "final" => final[1].n_clusters = best_scored_cluster[1].n_clusters

C26_Witness ==
    /\ pc = "final"
    /\ best_scored_cluster[1].labels # <<>>
    /\ best_scored_cluster[1].n_clusters = 3
    /\ Cardinality(RemainingClusters(best_scored_cluster[1].labels)) = 0
    /\ final[1].n_clusters = 3

\* C27: over any sequence of set_data calls on one Data object, a call
\* removes no id from excluded_ids; after a call that returns, neither the
\* stored loadshape nor the stored features holds an id of excluded_ids, the
\* ids excluded by earlier calls included; a call that raises ValueError for
\* no dataframe, or for both a loadshape and a time series, leaves
\* loadshape, features and excluded_ids as they were.
C27_ExcludedIds ==
    /\ arg.before.excluded_ids \subseteq ret.excluded_ids
    /\ pc = "set" =>
          /\ ret.loadshape.ids \cap ret.excluded_ids = {}
          /\ ret.features.ids \cap ret.excluded_ids = {}
          /\ ret.loadshape.state # "unset"
          /\ ret.features.state # "unset"
    /\ pc \in {"ValueError_none", "ValueError_both"} => ret = arg.before

C27_Witness ==
    /\ pc = "set"
    /\ arg.calls = 2
    /\ arg.before.excluded_ids = {1}
    /\ arg.before.loadshape = Table({2})
    /\ arg.offered = {1, 2}
    /\ ret.features = Table({2})
    /\ ret.loadshape = Table({2})
    /\ ret.excluded_ids = {1}

====
